---- MODULE Spec2Model ----
(***************************************************************************)
(* Model of src/script.js: the ring layout engine (layoutRings with its    *)
(* inner canFit), and the event handlers that init() installs (spotlight   *)
(* timer, bubble enter/leave, resize debounce).                            *)
(*                                                                         *)
(* Lengths (radii) are held exactly, in twentieths of a pixel, so that     *)
(* size * 0.95, size * 0.65 and width / 2 are integers:                    *)
(*     size * 0.95 px = 19 * size,   size * 0.65 px = 13 * size,           *)
(*     46 px = 920,  90 px = 1800,  20 px = 400,  30 px = 600.             *)
(* Math.PI is 355/113 in floor(2 * PI * r / (size * 1.2)); on every        *)
(* request of the input sets below, for every size of the search range,    *)
(* this yields the ring set the double-precision code yields.              *)
(***************************************************************************)
EXTENDS Integers, Sequences, FiniteSets

VARIABLES
    \* layoutRings(containerRect, peopleCount, centerRadiusPx)
    containerRect, peopleCount, centerRadiusPx,
    low, high, best, bestLayout, i, mid,
    \* the running canFit(size) call
    size, r, placed, ringIndex, rings, caller,
    pc, result,
    \* history: sizes the search loop evaluated, whether line 127 ran
    tried, fellBack,
    \* init(): spotlight rotation, bubbles, resize debounce
    numPeople, bubbles, hovered, focused,
    spotlightIndex, hoverLock, shownProfile,
    raf, frameQueue, nextHandle,
    rendersInFrame, resizesSinceFrame

layoutVars == <<containerRect, peopleCount, centerRadiusPx, low, high, best,
                bestLayout, i, mid, size, r, placed, ringIndex, rings, caller,
                pc, result, tried, fellBack>>
uiVars == <<numPeople, bubbles, hovered, focused, spotlightIndex, hoverLock,
            shownProfile, raf, frameQueue, nextHandle, rendersInFrame,
            resizesSinceFrame>>
vars == <<layoutVars, uiVars>>

(***************************************************************************)
(* Bounds of the model.                                                    *)
(***************************************************************************)
MaxSmallCount == 30
MaxCountSteps == 20
MaxPeopleUI == 3
MaxHandle == 7

Widths == {400, 864, 1700}
Heights == {400, 900, 1700}
CenterRadii == {60, 100}
PeopleCounts == (0..MaxSmallCount) \cup {100 * k : k \in 1..MaxCountSteps}

Min(a, b) == IF a <= b THEN a ELSE b
Max(a, b) == IF a >= b THEN a ELSE b

(***************************************************************************)
(* layoutRings                                                             *)
(***************************************************************************)
MinSize == 28
MinHigh == 56
HighDivisor == 12
MaxIterations == 18
SearchStep == 2

\* best initialised to the low end of the range
InitialBestWrong == MinSize
\* let best = 40
InitialBest == 40

\* Math.min(width, height) / 2 - 30, without the padding
MaxRadiusNoPadding == 10 * Min(containerRect.width, containerRect.height)
\* maxRadius = Math.min(width, height) / 2 - 30
MaxRadius == 10 * Min(containerRect.width, containerRect.height) - 600

InitialHigh ==
    Max(MinHigh, Min(containerRect.width, containerRect.height) \div HighDivisor)

\* ringGap with Math.min for Math.max
RingGapMin(s) == Min(19 * s, 920)
\* ringGap = Math.max(size * 0.95, 46)
RingGap(s) == Max(19 * s, 920)

\* safeInnerRadius = Math.max(centerRadiusPx + size * 0.65 + 20, 90)
SafeInnerRadius(s) == Max(20 * centerRadiusPx + 13 * s + 400, 1800)

\* capacity = Math.max(4, Math.floor(2 * Math.PI * r / (size * 1.2)))
Capacity(rad, s) == Max(4, (355 * rad) \div (113 * 12 * s))

\* available without the cap at the remaining people
AvailableUncapped(capacity, remaining) == capacity
\* available = Math.min(capacity, peopleCount - placed)
Available(capacity, remaining) == Min(capacity, remaining)

\* size: Math.max(26, Math.floor(size * (1 - ringIndex * 0.03)))
RingSize(s, idx) == Max(26, (s * (100 - 3 * idx)) \div 100)

\* spin: (ringIndex % 2 === 0) ? 80 - ringIndex * 6 : -(80 - ringIndex * 6)
Spin(idx) == IF idx % 2 = 0 THEN 80 - idx * 6 ELSE 0 - (80 - idx * 6)

\* the object pushed on rings by one pass of the for loop
RingAt(s, rad, done, idx) ==
    [radius |-> rad,
     count |-> Available(Capacity(rad, s), peopleCount - done),
     size |-> RingSize(s, idx),
     spin |-> Spin(idx)]

\* the for loop's condition with the radius test left out
RingLoopCondNoRadius(rad, done) == done < peopleCount
\* r <= maxRadius && placed < peopleCount
RingLoopCond(rad, done) == rad <= MaxRadius /\ done < peopleCount

\* canFit(size) as a function: { fits, rings }
RECURSIVE CanFitFrom(_, _, _, _)
CanFitFrom(s, rad, done, rs) ==
    IF RingLoopCond(rad, done)
    THEN LET ring == RingAt(s, rad, done, Len(rs))
         IN CanFitFrom(s, rad + RingGap(s), done + ring.count, Append(rs, ring))
    ELSE [fits |-> done >= peopleCount, rings |-> rs]

CanFit(s) == CanFitFrom(s, SafeInnerRadius(s), 0, <<>>)

\* i < 18 && low <= high
LoopGuard == i < MaxIterations /\ low <= high

NoResult == [rings |-> <<>>, bubbleSize |-> 0]

\* bestLayout is <<>> for null and <<rings>> for an array, which is truthy
\* in JavaScript even when empty.
LayoutInit ==
    /\ containerRect \in [width : Widths, height : Heights]
    /\ peopleCount \in PeopleCounts
    /\ centerRadiusPx \in CenterRadii
    /\ low = MinSize
    /\ high = InitialHigh
    /\ best = InitialBest
    /\ bestLayout = <<>>
    /\ i = 0
    /\ mid = 0
    /\ size = 0 /\ r = 0 /\ placed = 0 /\ ringIndex = 0 /\ rings = <<>>
    /\ caller = "none"
    /\ pc = "loop"
    /\ result = NoResult
    /\ tried = <<>>
    /\ fellBack = FALSE

\* entry of canFit(s): lines 92-96 and the for loop's initialiser
EnterCanFit(s, from) ==
    /\ size' = s
    /\ r' = SafeInnerRadius(s)
    /\ placed' = 0
    /\ ringIndex' = 0
    /\ rings' = <<>>
    /\ caller' = from
    /\ pc' = "canFit"

\* lines 114-116: the loop test, mid, and the call canFit(mid)
SearchProbe ==
    /\ pc = "loop"
    /\ LoopGuard
    /\ mid' = (low + high) \div 2
    /\ EnterCanFit((low + high) \div 2, "search")
    /\ tried' = Append(tried, (low + high) \div 2)
    /\ UNCHANGED uiVars
    /\ UNCHANGED <<containerRect, peopleCount, centerRadiusPx, low, high, best,
                   bestLayout, i, result, fellBack>>

\* lines 97-110: one pass of canFit's for loop
CanFitRing ==
    /\ pc = "canFit"
    /\ RingLoopCond(r, placed)
    /\ LET ring == RingAt(size, r, placed, ringIndex)
       IN /\ rings' = Append(rings, ring)
          /\ placed' = placed + ring.count
    /\ ringIndex' = ringIndex + 1
    /\ r' = r + RingGap(size)
    /\ UNCHANGED uiVars
    /\ UNCHANGED <<containerRect, peopleCount, centerRadiusPx, low, high, best,
                   bestLayout, i, mid, size, caller, pc, result, tried,
                   fellBack>>

\* lines 111, 117-120: canFit(mid) returned fits = true
SearchFits ==
    /\ pc = "canFit"
    /\ caller = "search"
    /\ ~RingLoopCond(r, placed)
    /\ placed >= peopleCount
    /\ best' = mid
    /\ bestLayout' = <<rings>>
    /\ low' = mid + SearchStep
    /\ i' = i + 1
    /\ pc' = "loop"
    /\ UNCHANGED uiVars
    /\ UNCHANGED <<containerRect, peopleCount, centerRadiusPx, high, mid, size,
                   r, placed, ringIndex, rings, caller, result, tried,
                   fellBack>>

\* lines 111, 121-123: canFit(mid) returned fits = false
SearchNoFit ==
    /\ pc = "canFit"
    /\ caller = "search"
    /\ ~RingLoopCond(r, placed)
    /\ placed < peopleCount
    /\ high' = mid - SearchStep
    /\ i' = i + 1
    /\ pc' = "loop"
    /\ UNCHANGED uiVars
    /\ UNCHANGED <<containerRect, peopleCount, centerRadiusPx, low, best,
                   bestLayout, mid, size, r, placed, ringIndex, rings, caller,
                   result, tried, fellBack>>

\* lines 126-127: the loop is over and bestLayout is null: call canFit(best)
Fallback ==
    /\ pc = "loop"
    /\ ~LoopGuard
    /\ bestLayout = <<>>
    /\ EnterCanFit(best, "fallback")
    /\ fellBack' = TRUE
    /\ UNCHANGED uiVars
    /\ UNCHANGED <<containerRect, peopleCount, centerRadiusPx, low, high, best,
                   bestLayout, i, mid, result, tried>>

\* line 127: bestLayout = canFit(best).rings
FallbackAssign ==
    /\ pc = "canFit"
    /\ caller = "fallback"
    /\ ~RingLoopCond(r, placed)
    /\ bestLayout' = <<rings>>
    /\ pc' = "return"
    /\ UNCHANGED uiVars
    /\ UNCHANGED <<containerRect, peopleCount, centerRadiusPx, low, high, best,
                   i, mid, size, r, placed, ringIndex, rings, caller, result,
                   tried, fellBack>>

\* line 130: return { rings: bestLayout, bubbleSize: best }
Return ==
    /\ \/ pc = "return"
       \/ pc = "loop" /\ ~LoopGuard /\ bestLayout # <<>>
    /\ result' = [rings |-> bestLayout[1], bubbleSize |-> best]
    /\ pc' = "done"
    /\ UNCHANGED uiVars
    /\ UNCHANGED <<containerRect, peopleCount, centerRadiusPx, low, high, best,
                   bestLayout, i, mid, size, r, placed, ringIndex, rings,
                   caller, tried, fellBack>>

(***************************************************************************)
(* init(): the handlers it installs.  A bubble is named by the index of    *)
(* its person in uniquePeople; buildRings creates bubbles for the first    *)
(* sum-of-ring-counts people, a number that depends on the container's     *)
(* size at the time of the render.                                         *)
(***************************************************************************)
Bubbles == 0..(bubbles - 1)

RenderCallbacks(q) == {e \in q : e.cb = "render"}

\* the resize listener without cancelAnimationFrame
ResizeQueueNoCancel(q, rafId, h) == q \cup {[id |-> h, cb |-> "render"]}
\* if (raf) cancelAnimationFrame(raf); raf = requestAnimationFrame(render)
ResizeQueue(q, rafId, h) ==
    {e \in q : rafId = 0 \/ e.id # rafId} \cup {[id |-> h, cb |-> "render"]}

\* state when init() has run to its end: render(), showSpotlightByIndex(0),
\* startAuto(), buildStream() (which requests the first frame for step),
\* raf = null
UIInit ==
    /\ numPeople \in 1..MaxPeopleUI
    /\ bubbles \in 0..numPeople
    /\ hovered = {}
    /\ focused = {}
    /\ spotlightIndex = 0
    /\ hoverLock = FALSE
    /\ shownProfile = {0}
    /\ raf = 0
    /\ frameQueue = {[id |-> 1, cb |-> "step"]}
    /\ nextHandle = 2
    /\ rendersInFrame = 0
    /\ resizesSinceFrame = 0

\* handleEnter(person): hoverLock = true; renderProfile(person)
HandleEnter(p) ==
    /\ hoverLock' = TRUE
    /\ shownProfile' = {p}

\* handleLeave(): hoverLock = false
HandleLeave == hoverLock' = FALSE

\* the setInterval callback of startAuto, every 3000 ms
Tick ==
    /\ pc = "idle"
    /\ IF hoverLock
       THEN UNCHANGED <<spotlightIndex, shownProfile>>
       ELSE /\ spotlightIndex' = (spotlightIndex + 1) % numPeople
            /\ shownProfile' = {(spotlightIndex + 1) % numPeople}
    /\ UNCHANGED <<numPeople, bubbles, hovered, focused, hoverLock, raf,
                   frameQueue, nextHandle, rendersInFrame, resizesSinceFrame>>
    /\ UNCHANGED layoutVars

\* mouseenter on a bubble: the pointer is over at most one bubble
MouseEnter ==
    /\ pc = "idle"
    /\ hovered = {}
    /\ \E p \in Bubbles :
          /\ hovered' = {p}
          /\ HandleEnter(p)
    /\ UNCHANGED <<numPeople, bubbles, focused, spotlightIndex, raf, frameQueue,
                   nextHandle, rendersInFrame, resizesSinceFrame>>
    /\ UNCHANGED layoutVars

\* mouseleave on the hovered bubble
MouseLeave ==
    /\ pc = "idle"
    /\ hovered # {}
    /\ hovered' = {}
    /\ HandleLeave
    /\ UNCHANGED <<numPeople, bubbles, focused, spotlightIndex, shownProfile,
                   raf, frameQueue, nextHandle, rendersInFrame,
                   resizesSinceFrame>>
    /\ UNCHANGED layoutVars

\* focus on a bubble (tabIndex = 0): at most one element has the focus
Focus ==
    /\ pc = "idle"
    /\ focused = {}
    /\ \E p \in Bubbles :
          /\ focused' = {p}
          /\ HandleEnter(p)
    /\ UNCHANGED <<numPeople, bubbles, hovered, spotlightIndex, raf, frameQueue,
                   nextHandle, rendersInFrame, resizesSinceFrame>>
    /\ UNCHANGED layoutVars

\* blur on the focused bubble
Blur ==
    /\ pc = "idle"
    /\ focused # {}
    /\ focused' = {}
    /\ HandleLeave
    /\ UNCHANGED <<numPeople, bubbles, hovered, spotlightIndex, shownProfile,
                   raf, frameQueue, nextHandle, rendersInFrame,
                   resizesSinceFrame>>
    /\ UNCHANGED layoutVars

\* the window's resize listener
Resize ==
    /\ pc = "idle"
    /\ nextHandle <= MaxHandle
    /\ frameQueue' = ResizeQueue(frameQueue, raf, nextHandle)
    /\ raf' = nextHandle
    /\ nextHandle' = nextHandle + 1
    /\ resizesSinceFrame' = resizesSinceFrame + 1
    /\ UNCHANGED <<numPeople, bubbles, hovered, focused, spotlightIndex,
                   hoverLock, shownProfile, rendersInFrame>>
    /\ UNCHANGED layoutVars

\* one animation frame: the browser runs every callback of the queue.  step
\* requests the next frame for itself; render is buildRings, which empties
\* the container (the old bubbles go without a mouseleave or blur event) and
\* builds the bubbles anew.  step's translateY is not part of the model.
AnimationFrame ==
    /\ pc = "idle"
    /\ nextHandle <= MaxHandle
    /\ frameQueue' = {[id |-> nextHandle, cb |-> "step"]}
    /\ nextHandle' = nextHandle + 1
    /\ rendersInFrame' = Cardinality(RenderCallbacks(frameQueue))
    /\ resizesSinceFrame' = 0
    /\ IF RenderCallbacks(frameQueue) # {}
       THEN /\ bubbles' \in 0..numPeople
            /\ hovered' = {}
            /\ focused' = {}
       ELSE UNCHANGED <<bubbles, hovered, focused>>
    /\ UNCHANGED <<numPeople, spotlightIndex, hoverLock, shownProfile, raf>>
    /\ UNCHANGED layoutVars

(***************************************************************************)
(* Specifications.  Spec: one call of layoutRings on a request drawn from  *)
(* the input sets.  FairSpec: the same, and the call keeps running.        *)
(* UISpec: the page after init(), under any order of events.               *)
(***************************************************************************)
UIIdle ==
    /\ numPeople = 1
    /\ bubbles = 0
    /\ hovered = {}
    /\ focused = {}
    /\ spotlightIndex = 0
    /\ hoverLock = FALSE
    /\ shownProfile = {}
    /\ raf = 0
    /\ frameQueue = {}
    /\ nextHandle = 1
    /\ rendersInFrame = 0
    /\ resizesSinceFrame = 0

LayoutIdle ==
    /\ containerRect = [width |-> 400, height |-> 400]
    /\ peopleCount = 0
    /\ centerRadiusPx = 100
    /\ low = MinSize
    /\ high = MinHigh
    /\ best = InitialBest
    /\ bestLayout = <<>>
    /\ i = 0
    /\ mid = 0
    /\ size = 0 /\ r = 0 /\ placed = 0 /\ ringIndex = 0 /\ rings = <<>>
    /\ caller = "none"
    /\ pc = "idle"
    /\ result = NoResult
    /\ tried = <<>>
    /\ fellBack = FALSE

Init == LayoutInit /\ UIIdle

Next ==
    \/ SearchProbe
    \/ CanFitRing
    \/ SearchFits
    \/ SearchNoFit
    \/ Fallback
    \/ FallbackAssign
    \/ Return

Spec == Init /\ [][Next]_vars

\* layoutRings is synchronous: once called it runs to its return
FairSpec == Spec /\ WF_vars(Next)

UINext ==
    \/ Tick
    \/ MouseEnter
    \/ MouseLeave
    \/ Focus
    \/ Blur
    \/ Resize
    \/ AnimationFrame

\* the page when init() has returned; layoutRings is not running
InitUI == UIInit /\ LayoutIdle

UISpec == InitUI /\ [][UINext]_vars

(***************************************************************************)
(* Properties of layoutRings.  Each is stated on the returned plan, with   *)
(* the claim's own expressions for the quantities it names.                *)
(***************************************************************************)
SearchRange == MinSize..InitialHigh
Fits(s) == CanFit(s).fits
Tried == {tried[k] : k \in 1..Len(tried)}

RECURSIVE SumCounts(_, _)
\* the sum of the counts of the first k rings of rs
SumCounts(rs, k) == IF k = 0 THEN 0 ELSE rs[k].count + SumCounts(rs, k - 1)

PlacedByPlan == SumCounts(result.rings, Len(result.rings))

\* C1: if some integer size of the search range fits, the returned plan
\* places every item: its ring counts sum to at least peopleCount.
C1_FeasibleRequestIsPlaced ==
    pc = "done" =>
        ((\E s \in SearchRange : Fits(s)) => PlacedByPlan >= peopleCount)

\* C2: whenever some candidate fits, the returned bubbleSize fits and no
\* larger integer size of the search range fits.
C2_LargestFittingSize ==
    (pc = "done" /\ \E s \in Tried : Fits(s)) =>
        /\ Fits(result.bubbleSize)
        /\ \A s \in SearchRange : s > result.bubbleSize => ~Fits(s)

\* C3: if no candidate the search evaluated fits, the call still returns,
\* with bubbleSize 40 and exactly the ring set canFit(40) builds.
C3_FallbackPlan ==
    (pc = "done" /\ \A s \in Tried : ~Fits(s)) =>
        /\ result.bubbleSize = 40
        /\ result.rings = CanFit(40).rings

C3_Witness ==
    /\ pc = "done"
    /\ Tried # {}
    /\ \A s \in Tried : ~Fits(s)
    /\ Len(result.rings) >= 2
    /\ PlacedByPlan < peopleCount

\* C4: each ring's count is min(capacity, items not placed on inner rings);
\* the counts never sum to more than peopleCount, sum to exactly peopleCount
\* when the returned size fits, and to less only on the fallback path.
C4_CountsCappedAtRemaining ==
    pc = "done" =>
        LET rs == result.rings
        IN /\ \A k \in 1..Len(rs) :
                 rs[k].count =
                     Min(Max(4, (355 * rs[k].radius)
                                   \div (113 * 12 * result.bubbleSize)),
                         peopleCount - SumCounts(rs, k - 1))
           /\ PlacedByPlan <= peopleCount
           /\ Fits(result.bubbleSize) => PlacedByPlan = peopleCount
           /\ PlacedByPlan < peopleCount => fellBack

C4_Witness ==
    /\ pc = "done"
    /\ ~fellBack
    /\ Len(result.rings) >= 2
    /\ LET last == result.rings[Len(result.rings)]
       IN /\ last.count < Capacity(last.radius, result.bubbleSize)
          /\ last.count > 0
    /\ PlacedByPlan = peopleCount

\* C5: ring radii strictly increase from the first ring to the last;
\* consecutive rings differ by max(0.95 * size, 46) > 0.
C5_RadiiStrictlyIncrease ==
    pc = "done" =>
        \A k \in 1..(Len(result.rings) - 1) :
            /\ result.rings[k + 1].radius > result.rings[k].radius
            /\ result.rings[k + 1].radius - result.rings[k].radius
                   = Max(19 * result.bubbleSize, 920)

C5_Witness ==
    /\ pc = "done"
    /\ Len(result.rings) >= 3
    /\ 19 * result.bubbleSize > 920

\* C6: every ring of every returned plan has its radius between
\* max(centerRadius + 0.65 * bubbleSize + 20, 90) and min(width, height)/2 - 30.
C6_RingsBetweenCenterAndEdge ==
    pc = "done" =>
        \A k \in 1..Len(result.rings) :
            /\ result.rings[k].radius
                   >= Max(20 * centerRadiusPx + 13 * result.bubbleSize + 400, 1800)
            /\ result.rings[k].radius
                   <= 10 * Min(containerRect.width, containerRect.height) - 600

C6_Witness ==
    /\ pc = "done"
    /\ fellBack
    /\ Len(result.rings) >= 1
    /\ result.rings[Len(result.rings)].radius + Max(19 * result.bubbleSize, 920)
           > 10 * Min(containerRect.width, containerRect.height) - 600
    /\ PlacedByPlan < peopleCount

C8_SpinAlternates ==
    pc = "done" =>
        \A k \in 1..Len(result.rings) :
            LET idx == k - 1
                spin == result.rings[k].spin
            IN /\ idx % 2 = 0 => spin > 0 /\ spin = 80 - 6 * idx
               /\ idx % 2 = 1 => spin < 0 /\ 0 - spin = 80 - 6 * idx

(***************************************************************************)
(* Properties of the handlers of init().                                   *)
(***************************************************************************)
\* C9: at most one render is pending at any time, and a frame runs render at
\* most once, however many resize events came before it.
C9_OneRenderPerFrame ==
    /\ Cardinality(RenderCallbacks(frameQueue)) <= 1
    /\ rendersInFrame <= 1

C9_Witness ==
    /\ resizesSinceFrame >= 2
    /\ Cardinality(RenderCallbacks(frameQueue)) = 1
    /\ rendersInFrame = 1

\* C10: whenever at least one bubble is hovered or focused, hoverLock is
\* true and a timer tick neither advances spotlightIndex nor replaces the
\* profile shown.
C10_LockedWhileEngaged ==
    [][(hovered \cup focused # {}) =>
           /\ hoverLock
           /\ Tick => UNCHANGED <<spotlightIndex, shownProfile>>]_vars

====
